---- MODULE Spec2Model ----
(***************************************************************************)
(* TripPilot client: the create-trip wizard (client/app/create/page.tsx)   *)
(* and the session gate it shares with the dashboard page.                 *)
(*                                                                         *)
(* One step of the model is one browser task: a React event handler, a     *)
(* timer callback, or the continuation of handleSubmitAllTrips after one   *)
(* of its awaits.  The component is re-rendered after every task, so an    *)
(* event handler reads the state of the latest render, while a timer       *)
(* callback or an async continuation reads what its closure captured.      *)
(* Text is a sequence of one-character strings.                            *)
(***************************************************************************)
EXTENDS Integers, Sequences, FiniteSets, TLC

VARIABLES page, status, stepIndex, tripData, currentTrips, messages,
          inputMessage, isTyping, isSubmitting, hasShownInitialPromptRef,
          initialPromptTimer, replyTimers, submitPc, allTrips, calls,
          unposted

vars == <<page, status, stepIndex, tripData, currentTrips, messages,
          inputMessage, isTyping, isSubmitting, hasShownInitialPromptRef,
          initialPromptTimer, replyTimers, submitPc, allTrips, calls,
          unposted>>

(* ------------------------------ bounds --------------------------------- *)

\* The transcript is cut off at this many messages.
MaxMessages == 34

\* The texts the user can have in the input box.
Inputs == {<<>>, <<" ">>, <<"a">>}

\* The pages a browser tab can be opened on.
Pages == {"dashboard", "create"}

(* ------------------------- constants of the page ----------------------- *)

steps == <<
  [field |-> "destination",   prompt |-> "Where would you like to go?"],
  [field |-> "budget",        prompt |-> "What's your budget for this trip?"],
  [field |-> "startDate",     prompt |-> "When will the trip start? (YYYY-MM-DD)"],
  [field |-> "endDate",       prompt |-> "When will the trip end? (YYYY-MM-DD)"],
  [field |-> "travelers",     prompt |-> "How many people are traveling?"],
  [field |-> "accessibility", prompt |-> "Do you have any accessibility needs?"],
  [field |-> "interests",     prompt |-> "What type of activities or experiences interest you?"],
  [field |-> "notes",         prompt |-> "Any additional notes or preferences?"] >>

\* steps is a 0-based array in the source, a 1-based sequence here.
StepAt(i) == steps[i + 1]

Fields == {steps[i].field : i \in DOMAIN steps}

EmptyTrip == [f \in Fields |-> <<>>]

Greeting == "Hello! I'm your TripPilot AI assistant. I'm here to help you plan the perfect trip."

GotAllDetails == "Got all the details! Would you like to submit this trip or add another one?"

SuccessText == "Thanks! Your trip(s) have been submitted successfully"

FailureText == "Sorry, there was an error submitting your trip(s). Please try again later."

Message(id, type, content) == [id |-> id, type |-> type, content |-> content]

(* ------------------------------ helpers -------------------------------- *)

IsWhitespace(c) == c \in {" ", "\t", "\n"}

RECURSIVE TrimStart(_)
TrimStart(s) ==
  IF s # <<>> /\ IsWhitespace(Head(s)) THEN TrimStart(Tail(s)) ELSE s

RECURSIVE TrimEnd(_)
TrimEnd(s) ==
  IF s # <<>> /\ IsWhitespace(s[Len(s)])
  THEN TrimEnd(SubSeq(s, 1, Len(s) - 1))
  ELSE s

\* Mutant: the blank check reads "!inputMessage", without trim().
Trim_Missing(s) == s

\* String.prototype.trim
Trim(s) == TrimEnd(TrimStart(s))

\* JavaScript truthiness of checkRes.data?.exists
Truthy(v) == v = "true"

ExistsValues == {"true", "false", "undefined"}

\* Mutant: the "unauthenticated" early return is missing.
PageRendered_NoLoginGate(st) == st # "loading"

\* The early returns of the page components: the page body, and so every
\* button and input of it, is rendered only for an authenticated session.
PageRendered(st) == st # "loading" /\ st # "unauthenticated"

\* The guard of the initial-prompt effect.
InitialPromptDue(st, shown, si, msgs) ==
  st = "authenticated" /\ ~shown /\ si = 0 /\ Len(msgs) = 1

\* The effects that run after the render that follows a task.  shown is
\* the value the task leaves in hasShownInitialPromptRef and pending says
\* whether the 500 ms timer is still pending after the task.
RunEffects(shown, pending) ==
  LET due == page = "create"
             /\ InitialPromptDue(status', shown, stepIndex', messages')
  IN /\ hasShownInitialPromptRef' = (shown \/ due)
     /\ initialPromptTimer' = (pending \/ due)

(* ------------------------------- Init ---------------------------------- *)

Init ==
  /\ page \in Pages
  /\ status = "loading"
  /\ stepIndex = 0
  /\ tripData = EmptyTrip
  /\ currentTrips = <<>>
  /\ messages = <<Message(1, "bot", Greeting)>>
  /\ inputMessage = <<>>
  /\ isTyping = FALSE
  /\ isSubmitting = FALSE
  /\ hasShownInitialPromptRef = FALSE
  /\ initialPromptTimer = FALSE
  /\ replyTimers = {}
  /\ submitPc = "idle"
  /\ allTrips = <<>>
  /\ calls = <<>>
  /\ unposted = {}

(* ------------------------------ session -------------------------------- *)

\* useSession resolves the session.
SessionResolves ==
  /\ status = "loading"
  /\ status' \in {"authenticated", "unauthenticated"}
  /\ UNCHANGED <<page, stepIndex, tripData, currentTrips, messages,
                 inputMessage, isTyping, isSubmitting, replyTimers,
                 submitPc, allTrips, calls, unposted>>
  /\ RunEffects(hasShownInitialPromptRef, initialPromptTimer)

\* onClick={() => signOut()} of either page.
SignOut ==
  /\ PageRendered(status)
  /\ status' = "unauthenticated"
  /\ UNCHANGED <<page, stepIndex, tripData, currentTrips, messages,
                 inputMessage, isTyping, isSubmitting, replyTimers,
                 submitPc, allTrips, calls, unposted>>
  /\ RunEffects(hasShownInitialPromptRef, initialPromptTimer)

(* --------------------------- the chat wizard --------------------------- *)

\* The 500 ms timer of the initial-prompt effect.
InitialPromptTimer ==
  /\ initialPromptTimer
  /\ Len(messages) < MaxMessages
  /\ messages' = Append(messages,
                        Message(Len(messages) + 1, "bot", StepAt(0).prompt))
  /\ UNCHANGED <<page, status, stepIndex, tripData, currentTrips,
                 inputMessage, isTyping, isSubmitting, replyTimers,
                 submitPc, allTrips, calls, unposted>>
  /\ RunEffects(hasShownInitialPromptRef, FALSE)

\* The input box is rendered and not disabled.
InputEnabled ==
  page = "create" /\ PageRendered(status) /\ ~isTyping

\* onChange of the input box.
SetInputMessage ==
  /\ InputEnabled
  /\ \E text \in Inputs :
       /\ text # inputMessage
       /\ inputMessage' = text
  /\ UNCHANGED <<page, status, stepIndex, tripData, currentTrips, messages,
                 isTyping, isSubmitting, replyTimers, submitPc, allTrips,
                 calls, unposted>>
  /\ RunEffects(hasShownInitialPromptRef, initialPromptTimer)

\* The send button is rendered and not disabled.
SendEnabled ==
  InputEnabled /\ Trim(inputMessage) # <<>>


\* Mutant: setStepIndex(stepIndex + 1) with the captured stepIndex.
NextStepIndex_Captured(prev, captured) == captured + 1

\* setStepIndex((prev) => prev + 1): prev is the state at update time,
\* captured is the stepIndex the closure of the timer saw.
NextStepIndex(prev, captured) == prev + 1

\* handleSendMessage, up to the point where it has started its timers.
HandleSendMessage ==
  /\ SendEnabled
  /\ Len(messages) < MaxMessages
  /\ messages' = Append(messages,
                        Message(Len(messages) + 1, "user", inputMessage))
  /\ tripData' = IF stepIndex + 1 \in DOMAIN steps
                 THEN [tripData EXCEPT ![StepAt(stepIndex).field] = inputMessage]
                 ELSE tripData
  /\ inputMessage' = <<>>
  /\ isTyping' = TRUE
  /\ replyTimers' = replyTimers \cup
                      {[stepIndex |-> stepIndex, length |-> Len(messages)]}
  /\ UNCHANGED <<page, status, stepIndex, currentTrips, isSubmitting,
                 submitPc, allTrips, calls, unposted>>
  /\ RunEffects(hasShownInitialPromptRef, initialPromptTimer)

\* The 1000 ms timer of handleSendMessage; t holds what its closure captured.
ReplyTimer ==
  \E t \in replyTimers :
    /\ Len(messages) < MaxMessages
    /\ replyTimers' = replyTimers \ {t}
    /\ isTyping' = FALSE
    /\ IF t.stepIndex < Len(steps) - 1
       THEN /\ messages' = Append(messages,
                                  Message(t.length + 2, "bot",
                                          StepAt(t.stepIndex + 1).prompt))
            /\ stepIndex' = NextStepIndex(stepIndex, t.stepIndex)
       ELSE /\ messages' = Append(messages,
                                  Message(t.length + 2, "bot", GotAllDetails))
            /\ stepIndex' = stepIndex
    /\ UNCHANGED <<page, status, tripData, currentTrips, inputMessage,
                   isSubmitting, submitPc, allTrips, calls, unposted>>
    /\ RunEffects(hasShownInitialPromptRef, initialPromptTimer)

\* The guard around the two action buttons.
ActionButtonsShown ==
  /\ page = "create"
  /\ PageRendered(status)
  /\ stepIndex = Len(steps) - 1
  /\ ~isTyping

AddAnotherTripEnabled == ActionButtonsShown

SubmitAllTripsEnabled == ActionButtonsShown /\ ~isSubmitting

Range(s) == {s[i] : i \in DOMAIN s}

\* Mutant: [tripData, ...prev]
PushTrip_Front(trips, trip) == <<trip>> \o trips

\* setCurrentTrips((prev) => [...prev, tripData])
PushTrip(trips, trip) == Append(trips, trip)

HandleAddAnotherTrip ==
  /\ AddAnotherTripEnabled
  /\ Len(messages) < MaxMessages
  /\ currentTrips' = PushTrip(currentTrips, tripData)
  /\ tripData' = EmptyTrip
  /\ stepIndex' = 0
  /\ messages' = Append(messages,
                        Message(Len(messages) + 1, "bot", StepAt(0).prompt))
  /\ unposted' = unposted \cup {tripData}
  /\ UNCHANGED <<page, status, inputMessage, isTyping, isSubmitting,
                 replyTimers, submitPc, allTrips, calls>>
  /\ RunEffects(hasShownInitialPromptRef, initialPromptTimer)

(* ------------------------- handleSubmitAllTrips ------------------------ *)

\* One HTTP call of the current invocation, as the log of the invocation
\* keeps it: result is "pending" until the call returns.
Call(name, body) ==
  [name |-> name, result |-> "pending", exists |-> "undefined", body |-> body]

\* The click: the synchronous part up to "await getSession()".
HandleSubmitAllTrips ==
  /\ SubmitAllTripsEnabled
  /\ submitPc = "idle"
  /\ allTrips' = Append(currentTrips, tripData)
  /\ isSubmitting' = TRUE
  /\ submitPc' = "getSession"
  /\ calls' = <<>>
  /\ UNCHANGED <<page, status, stepIndex, tripData, currentTrips, messages,
                 inputMessage, isTyping, replyTimers, unposted>>
  /\ RunEffects(hasShownInitialPromptRef, initialPromptTimer)

\* Where the invocation goes after getSession: "if (!token) throw".
AfterGetSession(token) == IF token THEN "check" ELSE "catch"

\* Mutant: a failed check call is not thrown.
AfterCheck_Swallowed(ok, exists) ==
  IF ~Truthy(exists) THEN "register" ELSE "trips"

\* Mutant: the condition on data.exists is inverted.
AfterCheck_Inverted(ok, exists) ==
  IF ~ok THEN "catch"
  ELSE IF Truthy(exists) THEN "register" ELSE "trips"

\* Where it goes after the check call: axios throws on a failed call, and
\* "if (!checkRes.data?.exists)" decides on the register call.
AfterCheck(ok, exists) ==
  IF ~ok THEN "catch"
  ELSE IF ~Truthy(exists) THEN "register" ELSE "trips"

\* Where it goes after the register call.
AfterRegister(ok) == IF ok THEN "trips" ELSE "catch"

\* Mutant: a failed trips POST is not thrown.
AfterTrips_NoThrow(ok) == "success"

\* Where it goes after the trips POST.
AfterTrips(ok) == IF ok THEN "success" ELSE "catch"

\* The message the try block or the catch block appends.
CompletionText(next) == IF next = "success" THEN SuccessText ELSE FailureText

\* The log once the pending call has returned.
Returned(ok, exists) ==
  [calls EXCEPT ![Len(calls)].result = IF ok THEN "ok" ELSE "failed",
                ![Len(calls)].exists = exists]

\* Mutant: the POST body is built from the state at the time of the POST.
Issue_LiveState(name, log) ==
  /\ submitPc' = name
  /\ calls' = Append(log, Call(name, IF name = "trips"
                                     THEN Append(currentTrips, tripData)
                                     ELSE <<>>))
  /\ unposted' = IF name = "trips"
                 THEN unposted \ Range(Append(currentTrips, tripData))
                 ELSE unposted
  /\ UNCHANGED <<page, status, stepIndex, tripData, currentTrips, messages,
                 inputMessage, isTyping, isSubmitting, replyTimers, allTrips>>
  /\ RunEffects(hasShownInitialPromptRef, initialPromptTimer)

\* The next HTTP call is started and the invocation awaits it.
Issue(name, log) ==
  /\ submitPc' = name
  /\ calls' = Append(log, Call(name, IF name = "trips" THEN allTrips ELSE <<>>))
  /\ unposted' = IF name = "trips" THEN unposted \ Range(allTrips) ELSE unposted
  /\ UNCHANGED <<page, status, stepIndex, tripData, currentTrips, messages,
                 inputMessage, isTyping, isSubmitting, replyTimers, allTrips>>
  /\ RunEffects(hasShownInitialPromptRef, initialPromptTimer)

\* Mutant: the trips are cleared at the end of the try block only.
Finish_ResetInTry(next, log) ==
  /\ Len(messages) < MaxMessages
  /\ messages' = Append(messages,
                        Message(Len(messages) + 1, "bot", CompletionText(next)))
  /\ isSubmitting' = FALSE
  /\ tripData' = IF next = "success" THEN EmptyTrip ELSE tripData
  /\ currentTrips' = IF next = "success" THEN <<>> ELSE currentTrips
  /\ stepIndex' = 0
  /\ submitPc' = "idle"
  /\ calls' = log
  /\ allTrips' = <<>>
  /\ UNCHANGED <<page, status, inputMessage, isTyping, replyTimers, unposted>>
  /\ RunEffects(FALSE, initialPromptTimer)

\* The end of the try block or the catch block, and the finally block.
Finish(next, log) ==
  /\ Len(messages) < MaxMessages
  /\ messages' = Append(messages,
                        Message(Len(messages) + 1, "bot", CompletionText(next)))
  /\ isSubmitting' = FALSE
  /\ tripData' = EmptyTrip
  /\ currentTrips' = <<>>
  /\ stepIndex' = 0
  /\ submitPc' = "idle"
  /\ calls' = log
  /\ allTrips' = <<>>
  /\ UNCHANGED <<page, status, inputMessage, isTyping, replyTimers, unposted>>
  /\ RunEffects(FALSE, initialPromptTimer)

Continue(next, log) ==
  IF next \in {"success", "catch"} THEN Finish(next, log) ELSE Issue(next, log)

\* getSession() returns, with or without an access token.
GetSessionReturns ==
  /\ submitPc = "getSession"
  /\ \E token \in BOOLEAN : Continue(AfterGetSession(token), calls)

\* axios.get(check_user_exists) returns or throws.
CheckReturns ==
  /\ submitPc = "check"
  /\ \E ok \in BOOLEAN, exists \in ExistsValues :
       /\ ~ok => exists = "undefined"
       /\ Continue(AfterCheck(ok, exists), Returned(ok, exists))

\* axios.post(register_pinecone_user) returns or throws.
RegisterReturns ==
  /\ submitPc = "register"
  /\ \E ok \in BOOLEAN :
       Continue(AfterRegister(ok), Returned(ok, "undefined"))

\* axios.post(trips) returns or throws.
TripsReturns ==
  /\ submitPc = "trips"
  /\ \E ok \in BOOLEAN :
       Continue(AfterTrips(ok), Returned(ok, "undefined"))

(* ------------------------------- Spec ---------------------------------- *)

Next ==
  \/ SessionResolves
  \/ SignOut
  \/ InitialPromptTimer
  \/ SetInputMessage
  \/ HandleSendMessage
  \/ ReplyTimer
  \/ HandleAddAnotherTrip
  \/ HandleSubmitAllTrips
  \/ GetSessionReturns
  \/ CheckReturns
  \/ RegisterReturns
  \/ TripsReturns

Spec == Init /\ [][Next]_vars

TypeOK ==
  /\ page \in Pages
  /\ status \in {"loading", "authenticated", "unauthenticated"}
  /\ stepIndex \in Nat
  /\ isTyping \in BOOLEAN /\ isSubmitting \in BOOLEAN
  /\ Cardinality(replyTimers) <= 1
  /\ submitPc \in {"idle", "getSession", "check", "register", "trips"}

(* ------------------------------ claims --------------------------------- *)

IsPrompt(m) ==
  m.type = "bot" /\ \E i \in DOMAIN steps : m.content = steps[i].prompt

PromptPositions == {i \in DOMAIN messages : IsPrompt(messages[i])}

LastPromptPosition ==
  CHOOSE i \in PromptPositions : \A j \in PromptPositions : j <= i

\* C1: whenever the user can send a message, the prompt appended last to the
\* transcript is the prompt of steps[stepIndex], the field the answer is
\* written to.
C1_AnswerUnderShownPrompt ==
  SendEnabled =>
    /\ PromptPositions # {}
    /\ messages[LastPromptPosition].content = StepAt(stepIndex).prompt

CompletionStep == submitPc # "idle" /\ submitPc' = "idle"

AddStep == Len(currentTrips') > Len(currentTrips)

\* C2: stepIndex stays within 0..7, and it changes only by +1, in the reply
\* timer of an answer to a step below 7, or to 0, in handleAddAnotherTrip or
\* at the completion of handleSubmitAllTrips.
C2_LinearSteps ==
  /\ [](stepIndex \in 0..(Len(steps) - 1))
  /\ [][stepIndex' # stepIndex =>
          \/ /\ stepIndex' = stepIndex + 1
             /\ \E t \in replyTimers :
                  t \notin replyTimers' /\ t.stepIndex < Len(steps) - 1
          \/ /\ stepIndex' = 0
             /\ AddStep \/ CompletionStep]_vars

\* The walk reached the last step again after a reset.
C2_Witness == stepIndex = Len(steps) - 1 /\ currentTrips # <<>>

\* C3: whenever one of the two action buttons is enabled, all eight fields
\* of the current trip have been answered.
C3_ButtonsOnlyOnCompletion ==
  (AddAnotherTripEnabled \/ SubmitAllTripsEnabled) =>
    \A f \in Fields : tripData[f] # <<>>

CallNames == [i \in DOMAIN calls |-> calls[i].name]

\* C4: the calls of an invocation are check, then register (if issued), then
\* trips, and every call but the last one issued has returned successfully.
C4_CallOrder ==
  /\ CallNames \in {<<>>, <<"check">>, <<"check", "register">>,
                    <<"check", "trips">>, <<"check", "register", "trips">>}
  /\ \A i \in 1..(Len(calls) - 1) : calls[i].result = "ok"

\* All three calls were issued.
C4_Witness == Len(calls) = 3

\* C5: the register call is issued exactly when the check call succeeded and
\* reported the user as absent; when the user exists the trips POST follows
\* the check directly.
C5_RegisterIffAbsent ==
  /\ (\E i \in DOMAIN calls : calls[i].name = "register") <=>
       /\ calls # <<>>
       /\ calls[1].result = "ok"
       /\ calls[1].exists \in {"false", "undefined"}
  /\ (calls # <<>> /\ calls[1].result = "ok" /\ calls[1].exists = "true") =>
       (Len(calls) = 2 /\ calls[2].name = "trips")

\* Both branches were taken: a register call after "exists" was missing.
C5_Witness ==
  /\ Len(calls) = 3
  /\ calls[1].exists = "undefined"
  /\ calls[3].result = "ok"

AllCallsSucceeded(log) ==
  /\ log # <<>>
  /\ log[Len(log)].name = "trips"
  /\ \A i \in DOMAIN log : log[i].result = "ok"

\* C6: a completing invocation appends exactly one bot message, the success
\* text iff a token was found and every call succeeded, the failure text
\* otherwise; the invocation appends nothing before it completes.
C6_OneFixedMessage ==
  [][/\ CompletionStep =>
          \E text \in {SuccessText, FailureText} :
            /\ messages' = Append(messages,
                                  Message(Len(messages) + 1, "bot", text))
            /\ text = SuccessText <=> AllCallsSucceeded(calls')
     /\ (submitPc' # submitPc /\ ~CompletionStep) => messages' = messages]_vars

\* One invocation has failed and a later one has succeeded.
C6_Witness ==
  /\ submitPc = "idle"
  /\ \E i \in DOMAIN messages :
       messages[i].type = "bot" /\ messages[i].content = FailureText
  /\ messages[Len(messages)].type = "bot"
  /\ messages[Len(messages)].content = SuccessText

\* C7: handleAddAnotherTrip appends tripData to currentTrips, empties all
\* eight fields, sets stepIndex to 0 and appends one bot message with the
\* prompt of step 0.
C7_AddAnotherTrip ==
  [][AddStep =>
       /\ currentTrips' = currentTrips \o <<tripData>>
       /\ \A f \in Fields : tripData'[f] = <<>>
       /\ stepIndex' = 0
       /\ Len(messages') = Len(messages) + 1
       /\ SubSeq(messages', 1, Len(messages)) = messages
       /\ messages'[Len(messages')].type = "bot"
       /\ messages'[Len(messages')].content = steps[1].prompt]_vars

\* A second, different trip has just been pushed.
C7_Witness ==
  /\ Len(currentTrips) = 2
  /\ currentTrips[1] # currentTrips[2]
  /\ tripData = EmptyTrip
  /\ stepIndex = 0

\* C8: while the session is loading or unauthenticated none of the actions
\* of a page is enabled, and the initial prompt is scheduled only for an
\* authenticated session.
C8_SessionGate ==
  /\ [](status \in {"loading", "unauthenticated"} =>
          /\ ~ENABLED SetInputMessage
          /\ ~ENABLED HandleSendMessage
          /\ ~ENABLED HandleAddAnotherTrip
          /\ ~ENABLED HandleSubmitAllTrips
          /\ ~ENABLED SignOut)
  /\ [][(~initialPromptTimer /\ initialPromptTimer') =>
          status' = "authenticated"]_vars

\* Signed out at the last step with text in the input box: every action
\* would be enabled but for the gate.
C8_Witness ==
  /\ page = "create"
  /\ status = "unauthenticated"
  /\ stepIndex = Len(steps) - 1
  /\ ~isTyping /\ ~isSubmitting
  /\ Trim(inputMessage) # <<>>

\* C9: a trip pushed by handleAddAnotherTrip that no trips POST has carried
\* yet is still held where a later POST takes it from: in currentTrips, or
\* in the allTrips of an invocation that has not reached its POST.
C9_NoTripLost ==
  \A t \in unposted :
    \/ t \in Range(currentTrips)
    \/ submitPc \in {"getSession", "check", "register"} /\ t \in Range(allTrips)

\* C10: no two messages of the transcript have the same id.
C10_UniqueIds ==
  \A i, j \in DOMAIN messages :
    i # j => messages[i].id # messages[j].id

\* C11: the completion of handleSubmitAllTrips lets the initial-prompt
\* effect run again: the effect sets hasShownInitialPromptRef and starts the
\* timer that appends the prompt of step 0.
C11_PromptRescheduled ==
  [][CompletionStep =>
       hasShownInitialPromptRef' /\ initialPromptTimer']_vars

\* C12: when an invocation completes, on every outcome, isSubmitting is
\* false, all eight fields are empty, currentTrips is empty and stepIndex
\* is 0.
C12_ResetOnEveryOutcome ==
  [][CompletionStep =>
       /\ isSubmitting' = FALSE
       /\ \A f \in Fields : tripData'[f] = <<>>
       /\ currentTrips' = <<>>
       /\ stepIndex' = 0]_vars

\* A failed invocation has just completed and a pushed trip is gone.
C12_Witness ==
  /\ submitPc = "idle"
  /\ messages[Len(messages)].type = "bot"
  /\ messages[Len(messages)].content = FailureText
  /\ unposted # {}
  /\ currentTrips = <<>>
  /\ ~isSubmitting

SubmitStep == submitPc = "idle" /\ submitPc' # "idle"

PostStep == submitPc # "trips" /\ submitPc' = "trips"

\* C13: allTrips is currentTrips followed by tripData as they are at the
\* click, it does not change while the invocation is in flight, and it is
\* the body of the trips POST.
C13_BodyIsSnapshot ==
  [][/\ SubmitStep => allTrips' = currentTrips \o <<tripData>>
     /\ (submitPc # "idle" /\ submitPc' # "idle") => allTrips' = allTrips
     /\ PostStep => calls'[Len(calls')].body = allTrips]_vars

\* A POST of two trips is in flight and the state has changed since the click.
C13_Witness ==
  /\ submitPc = "trips"
  /\ Len(calls[Len(calls)].body) = 2
  /\ calls[Len(calls)].body[1] # calls[Len(calls)].body[2]
  /\ calls[Len(calls)].body # currentTrips \o <<tripData>>

UserMessageStep ==
  /\ Len(messages') = Len(messages) + 1
  /\ messages'[Len(messages')].type = "user"

WhitespaceOnly(text) == \A i \in DOMAIN text : text[i] \in {" ", "\t", "\n"}

\* C14: a step that appends a user message writes the input text to the
\* field of steps[stepIndex] and leaves the other fields and currentTrips
\* alone; while the input is empty or whitespace-only no step appends a
\* user message, writes a field, starts a reply timer or sets isTyping.
C14_SendFrame ==
  [][/\ UserMessageStep =>
          /\ ~WhitespaceOnly(inputMessage)
          /\ messages'[Len(messages')].content = inputMessage
          /\ tripData' = [tripData EXCEPT
                            ![steps[stepIndex + 1].field] = inputMessage]
          /\ currentTrips' = currentTrips
     /\ WhitespaceOnly(inputMessage) =>
          /\ ~UserMessageStep
          /\ tripData' \in {tripData, EmptyTrip}
          /\ replyTimers' \subseteq replyTimers
          /\ isTyping' => isTyping]_vars

\* Step 2 has been answered and a whitespace-only text is in the input box
\* at step 3.
C14_Witness ==
  /\ InputEnabled
  /\ inputMessage = <<" ">>
  /\ stepIndex = 3
  /\ tripData["startDate"] = <<"a">>
  /\ tripData["endDate"] = <<>>

====
